---- MODULE Spec2Model ----
(***************************************************************************)
(* Model of xshot's X11 interaction layer (src/src/x_interface.rs):        *)
(*   - the lazily interned atom cache (atoms!/atom! macros),               *)
(*   - XInterface::write_to_clipboard, the selection-owner responder,      *)
(*   - XInterface::find_window_class, the ByName/ByClass target resolver.  *)
(*                                                                         *)
(* The X server and the other clients are the environment: every reply,    *)
(* every failure of a request and every incoming event is a                *)
(* nondeterministic choice.  Errors of requests sent unchecked             *)
(* (connection.send_request of a request without reply) are not seen at    *)
(* the call: the server's error comes back in the event stream and is      *)
(* returned as Err by a later wait_for_event.                              *)
(***************************************************************************)
EXTENDS Integers, Sequences, FiniteSets, TLC

VARIABLES
    \* ---- write_to_clipboard ----
    pc,            \* position in write_to_clipboard
    outcome,       \* "running", "Ok", "Err" or the message of a panic
    format,        \* the OutputFormat argument
    img_buf,       \* the encoded image bytes argument
    mimeInterned,  \* server: is the MIME name already an atom on the server
    window,        \* server: state of the throwaway owner window
    ownerReply,    \* server: the owner GetSelectionOwner reported
    image_format,  \* local `image_format`
    atoms,         \* the Atoms struct: one OnceCell per atom name
    interns,       \* InternAtom round trips issued by the atom cache, per name
    queue,         \* events the connection will deliver, oldest first
    pendingErrors, \* errors of failed unchecked requests, not yet delivered
    nEvents,       \* events returned Ok by wait_for_event so far
    nReq,          \* SelectionRequest events received
    nNotify,       \* SendEvent(SelectionNotify) requests sent
    nWrites,       \* ChangeProperty requests sent
    lastEvent,     \* the event the last loop iteration received
    lastSent,      \* requests sent by the last loop iteration, in order
    \* ---- find_window_class ----
    fpc,           \* position in find_window_class
    target,        \* the WindowTarget argument
    list,          \* server: _NET_CLIENT_LIST of the root window
    props,         \* server: per client, the value of the property probed
    probed,        \* GetProperty requests sent to clients so far, in order
    foutcome,      \* "running", "Ok", "Err" or the message of a panic
    fresult,       \* the window returned
    \* ---- establish_image ----
    ipc,           \* position in establish_image
    window_name,   \* is the window_name argument "Some" (held in target) or "None"
    size_arg,      \* the size argument: <<>> for None, else <<width, height>>
    delay_arg,     \* the delay argument: <<>> for None, else <<seconds>>
    wid,           \* local `wid`
    size,          \* local `size`
    isteps,        \* the steps establish_image has taken, in order
    img_data,      \* the data of the GetImage reply
    pixels,        \* local `pixels`
    ioutcome,      \* "running", "Ok", "Err" or the message of a panic
    \* ---- callers of the atom cache ----
    called,        \* the accessor calls that returned, with the handle each returned
    apanic         \* has an accessor call panicked

clipVars == <<pc, outcome, format, img_buf, mimeInterned, window, ownerReply,
              image_format,
              queue, pendingErrors, nEvents, nReq, nNotify, nWrites, lastEvent, lastSent>>
atomVars == <<atoms, interns>>
findVars == <<fpc, target, list, props, probed, foutcome, fresult>>
imgVars == <<ipc, window_name, size_arg, delay_arg, wid, size, isteps,
             img_data, pixels, ioutcome>>
callVars == <<called, apanic>>
vars == <<clipVars, atomVars, findVars, imgVars, callVars>>

----------------------------------------------------------------------------
\* Bounds of the model
MaxEvents == 3
MaxBufLen == 1
MaxClients == 2
MaxNameLen == 1
MaxDataLen == 4
MaxCalls == 3

\* x::ATOM_NONE
ATOM_NONE == 0
\* x::ATOM_ATOM, the type of the targets reply
ATOM_ATOM == 4
\* x::ATOM_STRING and x::ATOM_WM_CLASS, predefined atoms of the protocol
ATOM_STRING == 31
ATOM_WM_CLASS == 67

\* An empty OnceCell
Unset == -1

\* the messages of the panics
PanicAtom == "unable to establish atom"
PanicOwner == "unable to establish window as clipboard owner"
PanicUtf8 == "invalid utf8 title"
PanicNotFound == "unable to find window class"
PanicWid == "invalid window id"
PanicDuration == "can not convert float seconds to Duration"
PanicIndex == "index out of bounds"
PanicConversion == "failed image conversion"
Panics == {PanicAtom, PanicOwner, PanicUtf8, PanicNotFound, PanicWid,
           PanicDuration, PanicIndex, PanicConversion}

\* field names of the Atoms struct (atoms! invocation)
AtomFields == {"_net_client_list", "utf8_string", "_net_wm_name", "clipboard", "targets"}

\* stringify!($name).to_ascii_uppercase()
to_ascii_uppercase ==
    [f \in AtomFields |->
        CASE f = "_net_client_list" -> "_NET_CLIENT_LIST"
          [] f = "utf8_string"      -> "UTF8_STRING"
          [] f = "_net_wm_name"     -> "_NET_WM_NAME"
          [] f = "clipboard"        -> "CLIPBOARD"
          [] f = "targets"          -> "TARGETS"]

OutputFormat == {"Png", "Jpg", "Jpeg", "Gif", "Bmp"}

\* OutputFormat::to_mime_type
to_mime_type(f) ==
    CASE f = "Png"  -> "image/png"
      [] f = "Jpg"  -> "image/jpeg"
      [] f = "Jpeg" -> "image/jpeg"
      [] f = "Gif"  -> "image/gif"
      [] f = "Bmp"  -> "image/bmp"

\* The server's atom table: the atom a name has once it is interned.
ServerAtom(name) ==
    CASE name = "_NET_CLIENT_LIST" -> 101
      [] name = "UTF8_STRING"      -> 102
      [] name = "_NET_WM_NAME"     -> 103
      [] name = "CLIPBOARD"        -> 104
      [] name = "TARGETS"          -> 105
      [] name = "image/png"        -> 111
      [] name = "image/jpeg"       -> 112
      [] name = "image/gif"        -> 113
      [] name = "image/bmp"        -> 114

\* InternAtom reply: with only_if_exists the server answers None for a name
\* that is not an atom yet, otherwise it creates the atom.
InternAtomReply(only_if_exists, name, exists) ==
    IF only_if_exists /\ ~exists THEN ATOM_NONE ELSE ServerAtom(name)

----------------------------------------------------------------------------
\* The atom cache

\* atom!: the handle self.$name() returns (the cell's value, or the reply of
\* the InternAtom{only_if_exists: false} it sends when the cell is empty)
AtomValue(f) ==
    IF atoms[f] # Unset THEN atoms[f]
    ELSE InternAtomReply(FALSE, to_ascii_uppercase[f], FALSE)

\* atom!: .expect("unable to establish atom") panics when the cell is empty
\* and the intern round trip fails
AtomPanics(f, ok) == atoms[f] = Unset /\ ~ok

\* AtomGet sending the InternAtom whether or not the cell is filled
AtomGet_NoCache(f, ok) ==
    /\ interns' = [interns EXCEPT ![f] = @ + 1]
    /\ atoms' = IF ok THEN [atoms EXCEPT ![f] = AtomValue(f)] ELSE atoms

\* atom!: get_or_init, the effect of self.$name() on the cache
AtomGet(f, ok) ==
    IF atoms[f] # Unset
    THEN UNCHANGED atomVars
    ELSE /\ interns' = [interns EXCEPT ![f] = @ + 1]
         /\ atoms' = IF ok THEN [atoms EXCEPT ![f] = AtomValue(f)] ELSE atoms

\* Atoms::new: every cell empty
AtomsNew == [f \in AtomFields |-> Unset]

\* no accessor has been called from outside the three functions
CallIdle == called = <<>> /\ apanic = FALSE

\* one call self.atoms.$name() by any caller holding the XInterface
CallAtom ==
    /\ ~apanic
    /\ Len(called) < MaxCalls
    /\ \E f \in AtomFields, ok \in BOOLEAN :
         /\ atoms[f] = Unset \/ ok
         /\ AtomGet(f, ok)
         /\ IF AtomPanics(f, ok)
            THEN apanic' = TRUE /\ UNCHANGED called
            ELSE /\ called' = Append(called, [field |-> f, atom |-> AtomValue(f)])
                 /\ UNCHANGED apanic
    /\ UNCHANGED <<clipVars, findVars, imgVars>>

----------------------------------------------------------------------------
\* write_to_clipboard

\* the requestor window, property and timestamp a SelectionRequest carries
Requests == {[requestor |-> 71, property |-> 81, time |-> 0],
             [requestor |-> 72, property |-> 82, time |-> 5]}

\* the events the model queues: a SelectionClear, an event of another kind,
\* and SelectionRequests for TARGETS, for the format's MIME atom and for
\* another target
ClearEv == [type |-> "SelectionClear", target |-> ATOM_NONE]
OtherEv == [type |-> "Other", target |-> ATOM_NONE]
ReqEv(t) == [type |-> "SelectionRequest", target |-> t]
EventKinds(f) ==
    {ClearEv, OtherEv, ReqEv(ServerAtom("TARGETS")),
     ReqEv(ServerAtom(to_mime_type(f))), ReqEv(ServerAtom("UTF8_STRING"))}

SeqsUpTo(S, n) == UNION {[1..k -> S] : k \in 0..n}

BufBytes == {255}

\* the requests the loop sends
ChangeProperty(w, p, t, d, ok, checked) ==
    [req |-> "ChangeProperty", window |-> w, property |-> p, type |-> t,
     data |-> d, ok |-> ok, checked |-> checked]
DestroyWindow(ok) == [req |-> "DestroyWindow", ok |-> ok]
SendEvent(e, ok) ==
    [req |-> "SendEvent", destination |-> e.requestor, time |-> e.time,
     requestor |-> e.requestor, selection |-> e.selection,
     target |-> e.target, property |-> e.property, ok |-> ok]
Flush(ok) == [req |-> "Flush", ok |-> ok]

\* the server's verdicts a request can get; a request that is not sent has
\* none to choose
Verdicts(sent) == IF sent THEN BOOLEAN ELSE {TRUE}

ClipInit ==
    /\ pc = "create"
    /\ outcome = "running"
    /\ format \in OutputFormat
    /\ img_buf \in SeqsUpTo(BufBytes, MaxBufLen)
    /\ mimeInterned \in BOOLEAN
    /\ window = "none"
    /\ ownerReply = "none"
    /\ image_format = ATOM_NONE
    /\ queue \in SeqsUpTo(EventKinds(format), MaxEvents)
    /\ pendingErrors = 0
    /\ nEvents = 0 /\ nReq = 0 /\ nNotify = 0 /\ nWrites = 0
    /\ lastEvent = OtherEv
    /\ lastSent = <<>>

\* the function returns: Ok(()), Err(_) through `?`, or a panic
Return(o) == pc' = "done" /\ outcome' = o

\* CreateWindow, sent checked
CreateWindow ==
    /\ pc = "create"
    /\ \E ok \in BOOLEAN :
         IF ok THEN /\ window' = "alive" /\ pc' = "intern"
                    /\ UNCHANGED outcome
               ELSE Return("Err") /\ UNCHANGED window
    /\ UNCHANGED <<format, img_buf, mimeInterned, ownerReply, image_format, queue, pendingErrors, nEvents,
                   nReq, nNotify, nWrites, lastEvent, lastSent>>
    /\ UNCHANGED <<atomVars, findVars, imgVars, callVars>>

\* let image_format = self.request(&InternAtom{only_if_exists: true, ..})?.atom()
InternFormat ==
    /\ pc = "intern"
    /\ \E ok \in BOOLEAN :
         IF ok THEN /\ image_format' =
                          InternAtomReply(TRUE, to_mime_type(format), mimeInterned)
                    /\ pc' = "claim"
                    /\ UNCHANGED outcome
               ELSE Return("Err") /\ UNCHANGED image_format
    /\ UNCHANGED <<format, img_buf, mimeInterned, window, ownerReply, queue, pendingErrors, nEvents,
                   nReq, nNotify, nWrites, lastEvent, lastSent>>
    /\ UNCHANGED <<atomVars, findVars, imgVars, callVars>>

\* SetSelectionOwner{owner: window, selection: self.atoms.clipboard()}, checked
SetSelectionOwner ==
    /\ pc = "claim"
    /\ \E aok \in Verdicts(atoms["clipboard"] = Unset), ok \in BOOLEAN :
         /\ AtomGet("clipboard", aok)
         /\ IF AtomPanics("clipboard", aok) THEN Return(PanicAtom)
            ELSE IF ok THEN pc' = "verify" /\ UNCHANGED outcome
            ELSE Return("Err")
    /\ UNCHANGED <<format, img_buf, mimeInterned, window, ownerReply, image_format, queue, pendingErrors,
                   nEvents, nReq, nNotify, nWrites, lastEvent, lastSent>>
    /\ UNCHANGED <<findVars, imgVars, callVars>>

\* GetSelectionOwner and the comparison of its reply with `window`
GetSelectionOwner ==
    /\ pc = "verify"
    /\ \E aok \in Verdicts(atoms["clipboard"] = Unset), ok \in BOOLEAN,
          reply \in {"window", "other"} :
         /\ AtomGet("clipboard", aok)
         /\ IF AtomPanics("clipboard", aok)
            THEN Return(PanicAtom) /\ UNCHANGED ownerReply
            ELSE IF ~ok THEN Return("Err") /\ UNCHANGED ownerReply
            ELSE /\ ownerReply' = reply
                 /\ IF reply # "window" THEN Return(PanicOwner)
                    ELSE pc' = "servicing" /\ UNCHANGED outcome
    /\ UNCHANGED <<format, img_buf, mimeInterned, window, image_format, queue,
                   pendingErrors, nEvents, nReq, nNotify, nWrites, lastEvent,
                   lastSent>>
    /\ UNCHANGED <<findVars, imgVars, callVars>>

\* Arm with the comparison against image_format left out: every target that
\* is not TARGETS is served as the data request
Arm_AnyIsFormat(t) ==
    IF t = AtomValue("targets") THEN "targets"
    ELSE "format"

\* which arm of the SelectionRequest handler a target takes: the TARGETS
\* comparison comes first, then the comparison with image_format
Arm(t) ==
    IF t = AtomValue("targets") THEN "targets"
    ELSE IF t = image_format THEN "format"
    ELSE "other"

\* ArmRequests with the TARGETS reply listing the requested target instead of
\* image_format
ArmRequests_EchoTarget(event, wok, dok) ==
    CASE Arm(event.target) = "targets" ->
            <<ChangeProperty(event.requestor, event.property, ATOM_ATOM,
                             <<event.target>>, wok, FALSE)>>
      [] Arm(event.target) = "format" ->
            <<ChangeProperty(event.requestor, event.property, event.target,
                             img_buf, wok, TRUE)>>
            \o (IF wok THEN <<DestroyWindow(dok)>> ELSE <<>>)
      [] OTHER -> <<>>

\* the ChangeProperty / DestroyWindow requests of the arm, in order; a
\* checked request that fails ends the handler through `?`
ArmRequests(event, wok, dok) ==
    CASE Arm(event.target) = "targets" ->
            <<ChangeProperty(event.requestor, event.property, ATOM_ATOM,
                             <<image_format>>, wok, FALSE)>>
      [] Arm(event.target) = "format" ->
            <<ChangeProperty(event.requestor, event.property, event.target,
                             img_buf, wok, TRUE)>>
            \o (IF wok THEN <<DestroyWindow(dok)>> ELSE <<>>)
      [] OTHER -> <<>>

\* the arm returned early with Err(_)
ArmFailed(event, wok, dok) == Arm(event.target) = "format" /\ (~wok \/ ~dok)

\* Escape with `escape = true` forgotten
Escape_Never(event, wok, dok) == FALSE

\* `escape = true`
Escape(event, wok, dok) == Arm(event.target) = "format" /\ wok /\ dok

\* NotifyRequests with x::CURRENT_TIME in place of event.time()
NotifyRequests_CurrentTime(event, nok, fok) ==
    <<SendEvent([event EXCEPT !.time = 0], nok), Flush(fok)>>

\* SendEvent(SelectionNotify) and flush, after the arm
NotifyRequests(event, nok, fok) == <<SendEvent(event, nok), Flush(fok)>>

\* x::Event::SelectionRequest(event) => { .. }
SelectionRequest ==
    /\ pc = "servicing"
    /\ queue # <<>>
    /\ Head(queue).type = "SelectionRequest"
    /\ \E r \in Requests,
          aok \in Verdicts(atoms["targets"] = Unset),
          wok \in Verdicts(Arm(Head(queue).target) # "other"),
          dok \in Verdicts(Arm(Head(queue).target) = "format"),
          nok \in BOOLEAN, fok \in BOOLEAN :
         LET event == [type |-> "SelectionRequest", target |-> Head(queue).target,
                       requestor |-> r.requestor, property |-> r.property,
                       time |-> r.time, selection |-> ServerAtom("CLIPBOARD")]
             failed == ArmFailed(event, wok, dok)
             escape == Escape(event, wok, dok)
             nErr == (IF Arm(event.target) = "targets" /\ ~wok THEN 1 ELSE 0)
                     + (IF ~failed /\ ~nok THEN 1 ELSE 0)
         IN /\ AtomGet("targets", aok)
            /\ queue' = Tail(queue)
            /\ nEvents' = nEvents + 1
            /\ nReq' = nReq + 1
            /\ lastEvent' = event
            /\ IF AtomPanics("targets", aok)
               THEN /\ Return(PanicAtom)
                    /\ lastSent' = <<>>
                    /\ UNCHANGED <<window, pendingErrors, nNotify, nWrites>>
               ELSE /\ lastSent' = IF failed THEN ArmRequests(event, wok, dok)
                                   ELSE ArmRequests(event, wok, dok)
                                        \o NotifyRequests(event, nok, fok)
                    /\ nWrites' = nWrites
                                  + (IF Arm(event.target) = "other" THEN 0 ELSE 1)
                    /\ nNotify' = IF failed THEN nNotify ELSE nNotify + 1
                    /\ window' = IF escape THEN "destroyed" ELSE window
                    /\ pendingErrors' = pendingErrors + nErr
                    /\ IF failed \/ ~fok THEN Return("Err")
                       ELSE IF escape THEN Return("Ok")
                       ELSE UNCHANGED <<pc, outcome>>
    /\ UNCHANGED <<format, img_buf, mimeInterned, ownerReply, image_format>>
    /\ UNCHANGED <<findVars, imgVars, callVars>>

\* SelectionClear answered like a request: a notify is sent before the break
SelectionClear_Notifies ==
    /\ pc = "servicing"
    /\ queue # <<>>
    /\ Head(queue).type = "SelectionClear"
    /\ queue' = Tail(queue)
    /\ nEvents' = nEvents + 1
    /\ lastEvent' = Head(queue)
    /\ lastSent' = <<Flush(TRUE)>>
    /\ nNotify' = nNotify + 1
    /\ Return("Ok")
    /\ UNCHANGED <<format, img_buf, mimeInterned, window, ownerReply,
                   image_format, pendingErrors, nReq, nWrites>>
    /\ UNCHANGED <<atomVars, findVars, imgVars, callVars>>

\* x::Event::SelectionClear(_) => break
SelectionClear ==
    /\ pc = "servicing"
    /\ queue # <<>>
    /\ Head(queue).type = "SelectionClear"
    /\ queue' = Tail(queue)
    /\ nEvents' = nEvents + 1
    /\ lastEvent' = Head(queue)
    /\ lastSent' = <<>>
    /\ Return("Ok")
    /\ UNCHANGED <<format, img_buf, mimeInterned, window, ownerReply, image_format,
                   pendingErrors, nReq, nNotify, nWrites>>
    /\ UNCHANGED <<atomVars, findVars, imgVars, callVars>>

\* _ => {}: any other X event is dropped and the loop waits again
IgnoredEvent ==
    /\ pc = "servicing"
    /\ queue # <<>>
    /\ Head(queue).type = "Other"
    /\ queue' = Tail(queue)
    /\ nEvents' = nEvents + 1
    /\ lastEvent' = Head(queue)
    /\ lastSent' = <<>>
    /\ UNCHANGED <<pc, outcome, format, img_buf, mimeInterned, window,
                   ownerReply, image_format, pendingErrors, nReq, nNotify, nWrites>>
    /\ UNCHANGED <<atomVars, findVars, imgVars, callVars>>

\* wait_for_event()? returns the error of an earlier unchecked request; the
\* server's error may arrive before or after the events already queued
WaitProtocolError ==
    /\ pc = "servicing"
    /\ pendingErrors > 0
    /\ pendingErrors' = pendingErrors - 1
    /\ Return("Err")
    /\ UNCHANGED <<format, img_buf, mimeInterned, window, ownerReply, image_format, queue,
                   nEvents, nReq, nNotify, nWrites, lastEvent, lastSent>>
    /\ UNCHANGED <<atomVars, findVars, imgVars, callVars>>

\* wait_for_event()? fails because the connection broke
WaitConnectionError ==
    /\ pc = "servicing"
    /\ Return("Err")
    /\ UNCHANGED <<format, img_buf, mimeInterned, window, ownerReply, image_format, queue, pendingErrors,
                   nEvents, nReq, nNotify, nWrites, lastEvent, lastSent>>
    /\ UNCHANGED <<atomVars, findVars, imgVars, callVars>>

----------------------------------------------------------------------------
\* find_window_class

\* window ids of the top-level clients
Windows == 1..MaxClients

\* the property values a client can have, as bytes: empty, the texts "A" and
\* "b", the byte 0xFF (which no UTF-8 text contains), and the WM_CLASS
\* encodings "A\0b", "b\0A" and "b\0A\0" of an instance and a class name
Titles == {<<>>, <<65>>, <<98>>, <<255>>,
           <<65, 0, 98>>, <<98, 0, 65>>, <<98, 0, 65, 0>>}

\* bytes of the search string: 'A', 'a', 'b'
NameBytes == {65, 97, 98}

\* std::str::from_utf8(title) is Ok; of the bytes above 0x7F the model has
\* only 0xFF, so multi-byte sequences do not occur
from_utf8_ok(s) == \A i \in 1..Len(s) : s[i] < 128

\* char::to_lowercase on ASCII
ToLower(b) == IF b >= 65 /\ b <= 90 THEN b + 32 ELSE b

\* str::to_lowercase
to_lowercase(s) == [i \in 1..Len(s) |-> ToLower(s[i])]

\* positions of the NUL separators of s
Nuls(s) == {i \in 1..Len(s) : s[i] = 0}

Min(S) == CHOOSE x \in S : \A y \in S : x <= y

\* title.split('\0').nth(1).unwrap_or(title)
SecondField(s) ==
    IF Nuls(s) = {} THEN s
    ELSE LET first == Min(Nuls(s))
             later == {i \in Nuls(s) : i > first}
             stop == IF later = {} THEN Len(s) + 1 ELSE Min(later)
         IN SubSeq(s, first + 1, stop - 1)

\* str::contains
contains(h, n) ==
    \E i \in 0..(Len(h) - Len(n)) : SubSeq(h, i + 1, i + Len(n)) = n

\* title.to_lowercase().contains(&name.to_lowercase())
Matches(title, name) ==
    contains(to_lowercase(SecondField(title)), to_lowercase(name))

\* the (property, type) pair the match on the WindowTarget selects
ProbeProperty(kind) ==
    IF kind = "Name"
    THEN [property |-> AtomValue("_net_wm_name"), type |-> AtomValue("utf8_string")]
    ELSE [property |-> ATOM_WM_CLASS, type |-> ATOM_STRING]

\* the GetProperty request sent to a client, with the server's verdict
GetProperty(client, kind, ok) ==
    [window |-> client, property |-> ProbeProperty(kind).property,
     type |-> ProbeProperty(kind).type, ok |-> ok]

\* the --wid strings, as bytes: "1", "0x1f", "0x0x1", "+1", "", "0x", "g"
\* and the nine digits "100000000", which do not fit in a u32
WidStrings == {<<49>>, <<48, 120, 49, 102>>, <<48, 120, 48, 120, 49>>,
               <<43, 49>>, <<>>, <<48, 120>>, <<103>>,
               <<49, 48, 48, 48, 48, 48, 48, 48, 48>>}

\* n.trim_start_matches("0x"): every leading repetition of "0x" is removed
RECURSIVE trim_start_matches_0x(_)
trim_start_matches_0x(s) ==
    IF Len(s) >= 2 /\ s[1] = 48 /\ s[2] = 120
    THEN trim_start_matches_0x(SubSeq(s, 3, Len(s)))
    ELSE s

\* char::to_digit(16), -1 for a character that is no hex digit
HexDigit(b) ==
    IF b >= 48 /\ b <= 57 THEN b - 48
    ELSE IF b >= 97 /\ b <= 102 THEN b - 87
    ELSE IF b >= 65 /\ b <= 70 THEN b - 55
    ELSE -1

\* the value of a string of hex digits
RECURSIVE HexValue(_)
HexValue(s) ==
    IF s = <<>> THEN 0
    ELSE 16 * HexValue(SubSeq(s, 1, Len(s) - 1)) + HexDigit(s[Len(s)])

\* the digits left once the leading zeros are dropped
RECURSIVE Significant(_)
Significant(s) ==
    IF s # <<>> /\ s[1] = 48 THEN Significant(Tail(s)) ELSE s

\* u32::from_str_radix(s, 16): an optional '+', then at least one hex digit,
\* and a value that fits in 32 bits, which is eight significant hex digits
from_str_radix(s) ==
    LET digits == IF s # <<>> /\ s[1] = 43 THEN Tail(s) ELSE s
    IN IF /\ digits # <<>>
          /\ \A i \in 1..Len(digits) : HexDigit(digits[i]) >= 0
          /\ Len(Significant(digits)) <= 8
       THEN [ok |-> TRUE, value |-> HexValue(digits)]
       ELSE [ok |-> FALSE, value |-> 0]

\* injective sequences of window ids
ClientLists ==
    {l \in SeqsUpTo(Windows, MaxClients) :
        \A i, j \in 1..Len(l) : i # j => l[i] # l[j]}

FindInit ==
    /\ fpc = "list"
    /\ target \in [kind : {"Name", "Class"}, name : SeqsUpTo(NameBytes, MaxNameLen)]
                 \cup [kind : {"Wid"}, name : WidStrings]
    /\ list \in ClientLists
    /\ props \in [{list[i] : i \in 1..Len(list)} -> Titles]
    /\ probed = <<>>
    /\ foutcome = "running"
    /\ fresult = 0

\* find_window_class returns: Ok(window), Err(_) through `?`, or a panic
FindReturn(o, w) == fpc' = "done" /\ foutcome' = o /\ fresult' = w

\* let list = self.request(&GetProperty{property: self.atoms._net_client_list(), ..})?
GetClientList ==
    /\ fpc = "list"
    /\ \E aok \in Verdicts(atoms["_net_client_list"] = Unset), ok \in BOOLEAN :
         /\ AtomGet("_net_client_list", aok)
         /\ IF AtomPanics("_net_client_list", aok) THEN FindReturn(PanicAtom, 0)
            ELSE IF ~ok THEN FindReturn("Err", 0)
            ELSE fpc' = "match" /\ UNCHANGED <<foutcome, fresult>>
    /\ UNCHANGED <<target, list, props, probed>>
    /\ UNCHANGED <<clipVars, imgVars, callVars>>

\* WindowTarget::Name(n) => (self.atoms._net_wm_name(), ..
TargetNameProperty ==
    /\ fpc = "match"
    /\ target.kind = "Name"
    /\ \E aok \in Verdicts(atoms["_net_wm_name"] = Unset) :
         /\ AtomGet("_net_wm_name", aok)
         /\ IF AtomPanics("_net_wm_name", aok) THEN FindReturn(PanicAtom, 0)
            ELSE fpc' = "match_type" /\ UNCHANGED <<foutcome, fresult>>
    /\ UNCHANGED <<target, list, props, probed>>
    /\ UNCHANGED <<clipVars, imgVars, callVars>>

\* .. self.atoms.utf8_string(), n)
TargetNameType ==
    /\ fpc = "match_type"
    /\ \E aok \in Verdicts(atoms["utf8_string"] = Unset) :
         /\ AtomGet("utf8_string", aok)
         /\ IF AtomPanics("utf8_string", aok) THEN FindReturn(PanicAtom, 0)
            ELSE fpc' = "loop" /\ UNCHANGED <<foutcome, fresult>>
    /\ UNCHANGED <<target, list, props, probed>>
    /\ UNCHANGED <<clipVars, imgVars, callVars>>

\* WindowTarget::Class(n) => (x::ATOM_WM_CLASS, x::ATOM_STRING, n)
TargetClass ==
    /\ fpc = "match"
    /\ target.kind = "Class"
    /\ fpc' = "loop"
    /\ UNCHANGED <<target, list, props, probed, foutcome, fresult>>
    /\ UNCHANGED <<clipVars, atomVars, imgVars, callVars>>

\* WindowTarget::Wid(n) => from_str_radix(..).expect("invalid window id"),
\* return Ok(transmute(res_id))
TargetWid ==
    /\ fpc = "match"
    /\ target.kind = "Wid"
    /\ LET res_id == from_str_radix(trim_start_matches_0x(target.name))
       IN IF res_id.ok THEN FindReturn("Ok", res_id.value)
          ELSE FindReturn(PanicWid, 0)
    /\ UNCHANGED <<target, list, props, probed>>
    /\ UNCHANGED <<clipVars, atomVars, imgVars, callVars>>

\* ProbeClient walking the client list from its end
ProbeClient_Reverse ==
    /\ fpc = "loop"
    /\ Len(probed) < Len(list)
    /\ LET client == list[Len(list) - Len(probed)]
           title == props[client]
       IN \E ok \in BOOLEAN :
            /\ probed' = Append(probed, GetProperty(client, target.kind, ok))
            /\ IF ~ok THEN FindReturn("Err", 0)
               ELSE IF ~from_utf8_ok(title) THEN FindReturn(PanicUtf8, 0)
               ELSE IF Matches(title, target.name) THEN FindReturn("Ok", client)
               ELSE UNCHANGED <<fpc, foutcome, fresult>>
    /\ UNCHANGED <<target, list, props>>
    /\ UNCHANGED <<clipVars, atomVars, imgVars, callVars>>

\* ProbeClient taking a failed read for a non-match and going on
ProbeClient_SkipFailed ==
    /\ fpc = "loop"
    /\ Len(probed) < Len(list)
    /\ LET client == list[Len(probed) + 1]
           title == props[client]
       IN \E ok \in BOOLEAN :
            /\ probed' = Append(probed, GetProperty(client, target.kind, ok))
            /\ IF ~ok THEN UNCHANGED <<fpc, foutcome, fresult>>
               ELSE IF ~from_utf8_ok(title) THEN FindReturn(PanicUtf8, 0)
               ELSE IF Matches(title, target.name) THEN FindReturn("Ok", client)
               ELSE UNCHANGED <<fpc, foutcome, fresult>>
    /\ UNCHANGED <<target, list, props>>
    /\ UNCHANGED <<clipVars, atomVars, imgVars, callVars>>

\* one iteration of `for client in list.value()`
ProbeClient ==
    /\ fpc = "loop"
    /\ Len(probed) < Len(list)
    /\ LET client == list[Len(probed) + 1]
           title == props[client]
       IN \E ok \in BOOLEAN :
            /\ probed' = Append(probed, GetProperty(client, target.kind, ok))
            /\ IF ~ok THEN FindReturn("Err", 0)
               ELSE IF ~from_utf8_ok(title) THEN FindReturn(PanicUtf8, 0)
               ELSE IF Matches(title, target.name) THEN FindReturn("Ok", client)
               ELSE UNCHANGED <<fpc, foutcome, fresult>>
    /\ UNCHANGED <<target, list, props>>
    /\ UNCHANGED <<clipVars, atomVars, imgVars, callVars>>

\* panic!("unable to find window class") after the loop
Exhausted ==
    /\ fpc = "loop"
    /\ Len(probed) = Len(list)
    /\ FindReturn(PanicNotFound, 0)
    /\ UNCHANGED <<target, list, props, probed>>
    /\ UNCHANGED <<clipVars, atomVars, imgVars, callVars>>

(***************************************************************************)
(* establish_image                                                         *)
(***************************************************************************)

\* self.screen, the root window
Screen == 99

\* <<width, height>> of a size argument or of a GetGeometry reply
Sizes == {<<1, 1>>, <<2, 1>>}

\* the delay argument in seconds
Delays == {1, -1}

\* the data of a GetImage reply: every byte string over {0x00, 0xff} up to
\* MaxDataLen, and three longer ones whose bytes are all told apart
ImageData ==
    SeqsUpTo({0, 255}, MaxDataLen)
    \cup {<<1, 2, 3, 0, 4>>, <<1, 2, 3, 0, 4, 5, 6>>, <<1, 2, 3, 0, 4, 5, 6, 255>>}

\* the targets and property values establish_image is run with
ImageTargets ==
    {[kind |-> "Name", name |-> <<65>>], [kind |-> "Class", name |-> <<65>>],
     [kind |-> "Wid", name |-> <<49>>]}
ImageTitles == {<<65>>, <<98>>}

\* one entry of isteps
Step(op, drawable, width, height) ==
    [op |-> op, drawable |-> drawable, width |-> width, height |-> height]

\* the loop body without the swap: the three colour bytes as they came
ConvertChunk_NoSwap(chunk) == <<chunk[1], chunk[2], chunk[3], 255>>

\* pixels.push(chunk[2]); pixels.push(chunk[1]); pixels.push(chunk[0]);
\* pixels.push(0xff)   (indices from 1 here)
ConvertChunk(chunk) == <<chunk[3], chunk[2], chunk[1], 255>>

\* for chunk in img_data.chunks(4) { .. }: the groups of four bytes in order,
\* the last one shorter when the length is no multiple of four
RECURSIVE ConvertPixels(_)
ConvertPixels(data) ==
    IF data = <<>> THEN <<>>
    ELSE LET n == Min({4, Len(data)})
         IN ConvertChunk(SubSeq(data, 1, n))
              \o ConvertPixels(SubSeq(data, n + 1, Len(data)))

\* chunk[2] is out of bounds for a last chunk of one or two bytes
IndexPanics(data) == Len(data) % 4 \in {1, 2}

\* image::RgbaImage::from_raw: None when the buffer is too small for
\* width * height pixels of four bytes, Some for every other buffer
from_raw(width, height, buf) ==
    IF width * height * 4 <= Len(buf)
    THEN <<[width |-> width, height |-> height, buf |-> buf]>>
    ELSE <<>>

ImageInit ==
    /\ ipc = "resolve"
    /\ window_name \in {"None", "Some"}
    /\ size_arg \in {<<>>} \cup Sizes
    /\ delay_arg \in {<<>>} \cup {<<d>> : d \in Delays}
    /\ wid = 0
    /\ size = <<0, 0>>
    /\ isteps = <<>>
    /\ img_data = <<>>
    /\ pixels = <<>>
    /\ ioutcome = "running"

\* establish_image returns: Ok(image), Err(_) through `?`, or a panic
ImageReturn(o) == ipc' = "done" /\ ioutcome' = o

\* let wid = if let Some(name) = window_name { self.find_window_class(name)? }
\*           else { self.screen }
ResolveTarget ==
    /\ ipc = "resolve"
    /\ IF window_name = "None"
       THEN /\ wid' = Screen
            /\ ipc' = "size"
            /\ isteps' = Append(isteps, Step("resolve", Screen, 0, 0))
            /\ UNCHANGED ioutcome
       ELSE /\ fpc = "done"
            /\ IF foutcome = "Ok"
               THEN /\ wid' = fresult
                    /\ ipc' = "size"
                    /\ isteps' = Append(isteps, Step("resolve", fresult, 0, 0))
                    /\ UNCHANGED ioutcome
               ELSE /\ ImageReturn(foutcome)
                    /\ UNCHANGED <<wid, isteps>>
    /\ UNCHANGED <<window_name, size_arg, delay_arg, size, img_data, pixels>>
    /\ UNCHANGED <<clipVars, atomVars, findVars, callVars>>

\* DetermineSize asking for the geometry whatever the size argument is
DetermineSize_AlwaysQuery ==
    /\ ipc = "size"
    /\ \E ok \in BOOLEAN, reply \in Sizes :
         /\ isteps' = Append(isteps, Step("GetGeometry", wid, 0, 0))
         /\ IF ok
            THEN /\ size' = IF size_arg # <<>> THEN size_arg ELSE reply
                 /\ ipc' = "delay"
                 /\ UNCHANGED ioutcome
            ELSE /\ ImageReturn("Err")
                 /\ UNCHANGED size
    /\ UNCHANGED <<window_name, size_arg, delay_arg, wid, img_data, pixels>>
    /\ UNCHANGED <<clipVars, atomVars, findVars, callVars>>

\* let size = if let Some(size) = size { [size[0], size[1]] }
\*            else { self.calc_geometry(wid)? }
DetermineSize ==
    /\ ipc = "size"
    /\ IF size_arg # <<>>
       THEN /\ size' = size_arg
            /\ ipc' = "delay"
            /\ UNCHANGED <<isteps, ioutcome>>
       ELSE \E ok \in BOOLEAN, reply \in Sizes :
              /\ isteps' = Append(isteps, Step("GetGeometry", wid, 0, 0))
              /\ IF ok
                 THEN /\ size' = reply
                      /\ ipc' = "delay"
                      /\ UNCHANGED ioutcome
                 ELSE /\ ImageReturn("Err")
                      /\ UNCHANGED size
    /\ UNCHANGED <<window_name, size_arg, delay_arg, wid, img_data, pixels>>
    /\ UNCHANGED <<clipVars, atomVars, findVars, callVars>>

\* if let Some(delay) = delay { Duration::from_secs_f64(delay); sleep(time) }
\* from_secs_f64 panics on a negative value
Delay ==
    /\ ipc = "delay"
    /\ IF delay_arg = <<>>
       THEN ipc' = "fetch" /\ UNCHANGED <<isteps, ioutcome>>
       ELSE IF delay_arg[1] < 0
       THEN ImageReturn(PanicDuration) /\ UNCHANGED isteps
       ELSE /\ isteps' = Append(isteps, Step("sleep", 0, 0, 0))
            /\ ipc' = "fetch"
            /\ UNCHANGED ioutcome
    /\ UNCHANGED <<window_name, size_arg, delay_arg, wid, size, img_data, pixels>>
    /\ UNCHANGED <<clipVars, atomVars, findVars, callVars>>

\* let window_image = self.request(&GetImage{..})?; the conversion loop;
\* Ok(RgbaImage::from_raw(w, h, pixels).expect("failed image conversion"))
GetImage ==
    /\ ipc = "fetch"
    /\ \E ok \in BOOLEAN, data \in ImageData :
         /\ isteps' = Append(isteps, Step("GetImage", wid, size[1], size[2]))
         /\ IF ~ok
            THEN /\ ImageReturn("Err")
                 /\ UNCHANGED <<img_data, pixels>>
            ELSE /\ img_data' = data
                 /\ IF IndexPanics(data)
                    THEN /\ ImageReturn(PanicIndex)
                         /\ UNCHANGED pixels
                    ELSE /\ pixels' = ConvertPixels(data)
                         /\ IF from_raw(size[1], size[2], ConvertPixels(data)) = <<>>
                            THEN ImageReturn(PanicConversion)
                            ELSE ImageReturn("Ok")
    /\ UNCHANGED <<window_name, size_arg, delay_arg, wid, size>>
    /\ UNCHANGED <<clipVars, atomVars, findVars, callVars>>

\* write_to_clipboard is not running in the resolver specification
ClipIdle ==
    /\ pc = "idle"
    /\ outcome = "running"
    /\ format = "Png"
    /\ img_buf = <<>>
    /\ mimeInterned = FALSE
    /\ window = "none"
    /\ ownerReply = "none"
    /\ image_format = ATOM_NONE
    /\ queue = <<>>
    /\ pendingErrors = 0
    /\ nEvents = 0 /\ nReq = 0 /\ nNotify = 0 /\ nWrites = 0
    /\ lastEvent = OtherEv
    /\ lastSent = <<>>

FindIdle ==
    /\ fpc = "idle"
    /\ target = [kind |-> "Class", name |-> <<>>]
    /\ list = <<>>
    /\ props = <<>>
    /\ probed = <<>>
    /\ foutcome = "running"
    /\ fresult = 0

ImageIdle ==
    /\ ipc = "idle"
    /\ window_name = "None"
    /\ size_arg = <<>>
    /\ delay_arg = <<>>
    /\ wid = 0
    /\ size = <<0, 0>>
    /\ isteps = <<>>
    /\ img_data = <<>>
    /\ pixels = <<>>
    /\ ioutcome = "running"

Init ==
    /\ ClipInit
    /\ atoms = AtomsNew
    /\ interns = [f \in AtomFields |-> 0]
    /\ FindIdle
    /\ ImageIdle
    /\ CallIdle

Next ==
    \/ CreateWindow
    \/ InternFormat
    \/ SetSelectionOwner
    \/ GetSelectionOwner
    \/ SelectionRequest
    \/ SelectionClear
    \/ IgnoredEvent
    \/ WaitProtocolError
    \/ WaitConnectionError

Spec == Init /\ [][Next]_vars

\* wait_for_event returns an event that is queued, and the handler of the
\* event it returned runs to its end
Fairness ==
    /\ WF_vars(SelectionRequest)
    /\ WF_vars(SelectionClear)
    /\ WF_vars(IgnoredEvent)

SpecLive == Spec /\ Fairness

InitFind ==
    /\ FindInit
    /\ atoms = AtomsNew
    /\ interns = [f \in AtomFields |-> 0]
    /\ ClipIdle
    /\ ImageIdle
    /\ CallIdle

NextFind ==
    \/ GetClientList
    \/ TargetNameProperty
    \/ TargetNameType
    \/ TargetClass
    \/ TargetWid
    \/ ProbeClient
    \/ Exhausted

SpecFind == InitFind /\ [][NextFind]_vars

\* establish_image with find_window_class as the code calls it
InitImage ==
    /\ ImageInit
    /\ IF window_name = "None" THEN FindIdle
       ELSE /\ FindInit
            /\ target \in ImageTargets
            /\ Len(list) <= 1
            /\ \A i \in 1..Len(list) : props[list[i]] \in ImageTitles
    /\ atoms = AtomsNew
    /\ interns = [f \in AtomFields |-> 0]
    /\ ClipIdle
    /\ CallIdle

NextImage ==
    \/ GetClientList
    \/ TargetNameProperty
    \/ TargetNameType
    \/ TargetClass
    \/ TargetWid
    \/ ProbeClient
    \/ Exhausted
    \/ ResolveTarget
    \/ DetermineSize
    \/ Delay
    \/ GetImage

SpecImage == InitImage /\ [][NextImage]_vars

\* the atom cache under any sequence of accessor calls
InitAtoms ==
    /\ atoms = AtomsNew
    /\ interns = [f \in AtomFields |-> 0]
    /\ CallIdle
    /\ ClipIdle
    /\ FindIdle
    /\ ImageIdle

NextAtoms == CallAtom

SpecAtoms == InitAtoms /\ [][NextAtoms]_vars

----------------------------------------------------------------------------
\* Properties of write_to_clipboard

\* the loop iteration that received a SelectionRequest did not return Err and
\* did not panic
Completed(o) == o \in {"running", "Ok"}

\* lastSent holds no request of kind r
NoneSent(sent, r) == \A i \in 1..Len(sent) : sent[i].req # r

\* C1: a SelectionRequest for image_format whose handling completes writes the
\* full img_buf into the requestor's property, then destroys the owner window,
\* then sends the notify and flushes, and the loop ends with Ok; the events
\* behind it stay in the queue.
C1_DataRequestDelivers ==
    [][ /\ ( /\ pc = "servicing"
             /\ nReq' = nReq + 1
             /\ lastEvent'.target = image_format
             /\ Completed(outcome') )
           => /\ Len(lastSent') = 4
              /\ lastSent'[1] = ChangeProperty(lastEvent'.requestor,
                                   lastEvent'.property, image_format, img_buf,
                                   TRUE, TRUE)
              /\ lastSent'[2] = DestroyWindow(TRUE)
              /\ lastSent'[3] = SendEvent(lastEvent', lastSent'[3].ok)
              /\ lastSent'[4] = Flush(TRUE)
              /\ window = "alive" /\ window' = "destroyed"
              /\ pc' = "done" /\ outcome' = "Ok"
              /\ queue' = Tail(queue)
        /\ (pc = "done" => queue' = queue /\ nEvents' = nEvents)
      ]_vars

\* C1 witness: TARGETS request, then the data request, delivered with a
\* SelectionClear left unconsumed
C1_Witness ==
    /\ pc = "done" /\ outcome = "Ok"
    /\ lastEvent.type = "SelectionRequest" /\ lastEvent.target = image_format
    /\ img_buf # <<>>
    /\ nReq = 2 /\ nNotify = 2 /\ nWrites = 2
    /\ window = "destroyed"
    /\ queue # <<>> /\ Head(queue).type = "SelectionClear"

\* C2: every SelectionRequest handled without error gets exactly one
\* SelectionNotify with the request's time, requestor, selection, target and
\* property, followed by a flush as the last thing before the next wait; the
\* notifies sent equal the requests received.
C2_OneNotifyPerRequest ==
    /\ Completed(outcome) => nNotify = nReq
    /\ (lastEvent.type = "SelectionRequest" /\ Completed(outcome)) =>
         LET n == Len(lastSent) IN
         /\ n >= 2
         /\ lastSent[n].req = "Flush" /\ lastSent[n].ok
         /\ lastSent[n - 1].req = "SendEvent"
         /\ lastSent[n - 1].destination = lastEvent.requestor
         /\ lastSent[n - 1].time = lastEvent.time
         /\ lastSent[n - 1].requestor = lastEvent.requestor
         /\ lastSent[n - 1].selection = lastEvent.selection
         /\ lastSent[n - 1].target = lastEvent.target
         /\ lastSent[n - 1].property = lastEvent.property
         /\ Cardinality({i \in 1..n : lastSent[i].req = "SendEvent"}) = 1

\* C2 witness: three requests, one per arm, three notifies
C2_Witness ==
    /\ outcome = "Ok" /\ nReq = 3 /\ nNotify = 3 /\ nWrites = 2
    /\ lastEvent.type = "SelectionRequest" /\ lastEvent.time # 0

\* C3: a SelectionRequest for TARGETS writes the one-element list
\* <<image_format>> of type ATOM into the requestor's property, sends no
\* DestroyWindow, leaves the owner window alive, and the loop waits again.
C3_TargetsQueryAnswered ==
    [][ ( /\ pc = "servicing"
          /\ nReq' = nReq + 1
          /\ atoms'["targets"] # Unset
          /\ lastEvent'.target = atoms'["targets"] )
        => /\ Len(lastSent') = 3
           /\ lastSent'[1] = ChangeProperty(lastEvent'.requestor,
                                lastEvent'.property, ATOM_ATOM,
                                <<image_format>>, lastSent'[1].ok, FALSE)
           /\ NoneSent(lastSent', "DestroyWindow")
           /\ window' = "alive"
           /\ IF lastSent'[3].ok
              THEN pc' = "servicing" /\ outcome' = "running"
              ELSE outcome' = "Err"
      ]_vars

\* C3 witness: two TARGETS queries answered, still servicing
C3_Witness ==
    /\ pc = "servicing" /\ nReq = 2 /\ nWrites = 2 /\ nNotify = 2
    /\ lastEvent.type = "SelectionRequest"
    /\ lastEvent.target = atoms["targets"]
    /\ image_format # ATOM_NONE
    /\ window = "alive"

\* C4: a SelectionClear ends the loop with Ok; no ChangeProperty and no
\* SelectionNotify is sent for it.
C4_ClearReleases ==
    [][ ( /\ pc = "servicing"
          /\ nEvents' = nEvents + 1
          /\ lastEvent'.type = "SelectionClear" )
        => /\ pc' = "done" /\ outcome' = "Ok"
           /\ lastSent' = <<>>
           /\ nWrites' = nWrites /\ nNotify' = nNotify
           /\ pendingErrors' = pendingErrors
      ]_vars

\* C4 witness: SelectionClear as the very first event
C4_Witness ==
    /\ pc = "done" /\ outcome = "Ok"
    /\ nEvents = 1 /\ lastEvent.type = "SelectionClear"
    /\ nWrites = 0 /\ nNotify = 0

\* C5: whenever the loop has ended with Ok, the owner window is destroyed.
\* The SelectionClear arm breaks without a DestroyWindow.
C5_WindowDestroyedOnExit ==
    (pc = "done" /\ outcome = "Ok") => window = "destroyed"

\* C6: when GetSelectionOwner does not report the owner window, the function
\* returns a recoverable error and no event is consumed, no property written,
\* no notify sent.  The code panics instead.
C6_OwnershipErrorReturned ==
    ownerReply = "other" =>
        /\ pc = "done" /\ outcome = "Err"
        /\ nEvents = 0 /\ nWrites = 0 /\ nNotify = 0

\* C7: after a ChangeProperty of the loop failed, the function has returned
\* Err, with no SelectionNotify sent for that request, no DestroyWindow, and
\* the failed write as the last request.  The TARGETS reply is sent unchecked,
\* its failure is not seen before the notify goes out.
C7_WriteFailureAborts ==
    \A i \in 1..Len(lastSent) :
        (lastSent[i].req = "ChangeProperty" /\ ~lastSent[i].ok) =>
            /\ pc = "done" /\ outcome = "Err"
            /\ i = Len(lastSent)
            /\ NoneSent(lastSent, "SendEvent")
            /\ NoneSent(lastSent, "DestroyWindow")
            /\ window = "alive"

----------------------------------------------------------------------------
\* Properties of find_window_class

\* the k-th candidate's property value is text that contains the search string
IsMatch(k) ==
    /\ from_utf8_ok(props[list[k]])
    /\ Matches(props[list[k]], target.name)

\* C8: the resolver returns the matching candidate of lowest list index k
\* after exactly k probes, sent to list[1..k] in list order; once a probed
\* candidate matches, nothing after it is probed.
C8_FirstMatchWins ==
    target.kind \in {"Name", "Class"} =>
    /\ \A k \in 1..Len(probed) :
          /\ probed[k].window = list[k]
          /\ (IsMatch(k) /\ probed[k].ok) =>
                /\ k = Len(probed)
                /\ fpc = "done" /\ foutcome = "Ok" /\ fresult = list[k]
    /\ foutcome = "Ok" =>
          /\ Len(probed) >= 1
          /\ fresult = list[Len(probed)]
          /\ IsMatch(Len(probed))
          /\ \A j \in 1..(Len(probed) - 1) : ~IsMatch(j)

\* C8 witness: the first of two matching candidates is returned after one
\* probe although the second has the lower window id
C8_Witness ==
    /\ foutcome = "Ok" /\ Len(list) = 2 /\ Len(probed) = 1
    /\ fresult = list[1] /\ list[2] < list[1]
    /\ IsMatch(2)
    /\ target.name # <<>>

\* C9: when no candidate matches, every candidate has been probed once and
\* the resolver returns the recoverable error TargetNotFound.  The code
\* panics after the loop.
C9_NotFoundReturned ==
    ( /\ fpc = "done"
      /\ target.kind \in {"Name", "Class"}
      /\ Len(probed) = Len(list)
      /\ \A k \in 1..Len(list) : probed[k].ok /\ ~IsMatch(k)
      /\ \A k \in 1..Len(list) : from_utf8_ok(props[list[k]])
      /\ foutcome # "Err" /\ foutcome # PanicAtom )
    => foutcome = "TargetNotFound"

\* C10: a failed property read ends the resolution at that candidate with
\* Err: it is the last probe, nothing is returned, and the outcome differs
\* from the one of an exhausted search.
C10_ProbeFailureAborts ==
    /\ \A k \in 1..Len(probed) :
          ~probed[k].ok =>
             /\ k = Len(probed)
             /\ fpc = "done" /\ foutcome = "Err" /\ fresult = 0
    /\ foutcome = PanicNotFound =>
          /\ Len(probed) = Len(list)
          /\ \A k \in 1..Len(probed) : probed[k].ok

\* C10 witness: the read of the first candidate fails while the second
\* candidate would match
C10_Witness ==
    /\ fpc = "done" /\ foutcome = "Err"
    /\ Len(list) = 2 /\ Len(probed) = 1 /\ ~probed[1].ok
    /\ IsMatch(2)
    /\ target.name # <<>>

\* C11: a ByIdentifier target is settled before any request is sent: a string
\* that parses yields Ok with the window whose raw value is the number, a
\* string that does not parse yields the recoverable error InvalidIdentifier.
\* The code asks for the client list first and panics on the parse.
C11_IdentifierBeforeRequests ==
    target.kind = "Wid" =>
        /\ interns["_net_client_list"] = 0
        /\ fpc = "done" =>
             LET res_id == from_str_radix(trim_start_matches_0x(target.name))
             IN IF res_id.ok
                THEN foutcome = "Ok" /\ fresult = res_id.value
                ELSE foutcome = "InvalidIdentifier"

\* establish_image got a GetImage reply and ran the conversion loop to its end
Converted == ipc = "done" /\ ioutcome \in {"Ok", PanicConversion}

\* establish_image got a GetImage reply
Fetched == ipc = "done" /\ ioutcome \in {"Ok", PanicConversion, PanicIndex}

\* the indices of the steps of one kind
StepsOf(op) == {i \in 1..Len(isteps) : isteps[i].op = op}

\* C12: the conversion maps every 4-byte group [B,G,R,X] of the reply data, in
\* order, to [R,G,B,0xFF] whatever X is, and yields as many groups as the
\* loop was given.
C12_PixelConversion ==
    Converted =>
        /\ Len(pixels) = 4 * ((Len(img_data) + 3) \div 4)
        /\ \A g \in 1..(Len(img_data) \div 4) :
             /\ pixels[4 * g - 3] = img_data[4 * g - 1]
             /\ pixels[4 * g - 2] = img_data[4 * g - 2]
             /\ pixels[4 * g - 1] = img_data[4 * g - 3]
             /\ pixels[4 * g] = 255

C12_Witness ==
    /\ ioutcome = "Ok"
    /\ img_data = <<1, 2, 3, 0, 4, 5, 6, 255>>
    /\ pixels = <<3, 2, 1, 255, 6, 5, 4, 255>>

\* C13: once the reply is there, establish_image signals CaptureSizeMismatch
\* exactly when the length of the data differs from width * height * 4, and
\* accepts the data otherwise.  The code accepts longer data and a last group
\* of three bytes, and panics on data that is too short.
C13_SizeMismatchRejected ==
    Fetched =>
        IF Len(img_data) = size[1] * size[2] * 4
        THEN ioutcome = "Ok"
        ELSE ioutcome = "CaptureSizeMismatch"

\* C14: target resolution comes first, then the size (no geometry query with a
\* size argument, else one query on the resolved window), then the delay,
\* then one GetImage for the rectangle; find_window_class is over by then.
C14_StepOrder ==
    /\ isteps # <<>> => isteps[1].op = "resolve" /\ isteps[1].drawable = wid
    /\ isteps # <<>> => fpc \in {"idle", "done"}
    /\ Cardinality(StepsOf("resolve")) <= 1
    /\ size_arg # <<>> => StepsOf("GetGeometry") = {}
    /\ Cardinality(StepsOf("GetGeometry")) <= 1
    /\ \A i \in StepsOf("GetGeometry") : isteps[i].drawable = wid
    /\ \A i \in StepsOf("sleep") :
         /\ \A j \in StepsOf("resolve") \cup StepsOf("GetGeometry") : j < i
         /\ size_arg = <<>> => \E j \in StepsOf("GetGeometry") : j < i
    /\ Cardinality(StepsOf("GetImage")) <= 1
    /\ \A i \in StepsOf("GetImage") :
         /\ i = Len(isteps)
         /\ delay_arg # <<>> => \E j \in StepsOf("sleep") : j < i
         /\ size_arg = <<>> => \E j \in StepsOf("GetGeometry") : j < i
         /\ size_arg # <<>> => size = size_arg
         /\ isteps[i] = Step("GetImage", wid, size[1], size[2])
    /\ (ipc = "done" /\ ioutcome = "Ok") => Cardinality(StepsOf("GetImage")) = 1

C14_Witness ==
    /\ ipc = "done" /\ ioutcome = "Ok"
    /\ window_name = "Some"
    /\ [i \in 1..Len(isteps) |-> isteps[i].op]
         = <<"resolve", "GetGeometry", "sleep", "GetImage">>

\* C15: over any sequence of accessor calls each atom name is interned at most
\* once, at its first call; every call of a name returned the handle the cell
\* holds now, so later calls return the first handle and the cell never changes.
C15_AtomCacheIdempotent ==
    \A f \in AtomFields :
        /\ interns[f] <= 1
        /\ atoms[f] = Unset => \A i \in 1..Len(called) : called[i].field # f
        /\ \A i \in 1..Len(called) :
             called[i].field = f =>
                 /\ interns[f] = 1
                 /\ atoms[f] = called[i].atom
                 /\ called[i].atom = ServerAtom(to_ascii_uppercase[f])

C15_Witness ==
    /\ Len(called) = 3
    /\ called[1].field = "targets" /\ called[2].field = "clipboard"
    /\ called[3].field = "targets"
    /\ called[3].atom = called[1].atom
    /\ interns["targets"] = 1

\* the loop tested the k-th candidate: its read succeeded and gave text
Tested(k) == probed[k].ok /\ from_utf8_ok(props[list[k]])

\* the text the containment test is to be made against: the second field of
\* a class value, the whole of a display name
ClaimedField(kind, title) == IF kind = "Class" THEN SecondField(title) ELSE title

\* C16: a tested candidate is returned exactly when the search string is
\* contained, without regard to case, in the second NUL-separated field of its
\* class value (ByClass) or in its display-name value (ByName).  The code
\* takes the second field of a display name too.
C16_MatchedField ==
    target.kind \in {"Name", "Class"} =>
        \A k \in 1..Len(probed) :
            Tested(k) =>
                ( (foutcome = "Ok" /\ k = Len(probed) /\ fresult = list[k])
                  <=> contains(to_lowercase(ClaimedField(target.kind, props[list[k]])),
                               to_lowercase(target.name)) )

\* C17: a candidate whose read succeeds with an empty value or with a value
\* that is not text is a non-match: it is not returned and the resolution
\* does not abort on it.  The code panics on a value that is not text and
\* returns an empty value's candidate when the search string is empty.
C17_EmptyOrNonTextSkipped ==
    target.kind \in {"Name", "Class"} =>
        \A k \in 1..Len(probed) :
            ( /\ probed[k].ok
              /\ props[list[k]] = <<>> \/ ~from_utf8_ok(props[list[k]]) )
            => /\ foutcome # PanicUtf8
               /\ ~(foutcome = "Ok" /\ k = Len(probed))

\* the atom that names the MIME type of the format argument
MimeAtom == ServerAtom(to_mime_type(format))

\* C18: a SelectionRequest whose target is neither TARGETS nor the format's
\* atom gets no ChangeProperty and no DestroyWindow; the notify and the flush
\* are still sent, the owner window stays, and the loop waits again.
C18_OtherTargetRefused ==
    [][ ( /\ pc = "servicing"
          /\ nReq' = nReq + 1
          /\ atoms'["targets"] # Unset
          /\ lastEvent'.target \notin {atoms'["targets"], image_format, MimeAtom} )
        => /\ Len(lastSent') = 2
           /\ lastSent' = NotifyRequests(lastEvent', lastSent'[1].ok, lastSent'[2].ok)
           /\ NoneSent(lastSent', "ChangeProperty")
           /\ NoneSent(lastSent', "DestroyWindow")
           /\ nWrites' = nWrites /\ nNotify' = nNotify + 1
           /\ window' = window
           /\ IF lastSent'[2].ok
              THEN pc' = "servicing" /\ outcome' = "running"
              ELSE outcome' = "Err"
      ]_vars

\* C18 witness: a request for UTF8_STRING was refused, still servicing
C18_Witness ==
    /\ pc = "servicing" /\ nReq = 1 /\ nWrites = 0 /\ nNotify = 1
    /\ lastEvent.type = "SelectionRequest"
    /\ lastEvent.target = ServerAtom("UTF8_STRING")
    /\ Len(lastSent) = 2
    /\ window = "alive"

\* C19: the loop returns Ok only on a SelectionClear or on a SelectionRequest
\* for the format's atom, and once one of the two is queued the function
\* returns (with Ok unless a request failed).  With image_format left None a
\* request for the MIME atom is refused and the loop waits for ever.
C19_ReturnsOnClearOrFormat ==
    /\ []( (pc = "done" /\ outcome = "Ok")
           => \/ lastEvent.type = "SelectionClear"
              \/ lastEvent.type = "SelectionRequest" /\ lastEvent.target = MimeAtom )
    /\ ( ( /\ pc = "servicing"
           /\ \E i \in 1..Len(queue) : queue[i] \in {ClearEv, ReqEv(MimeAtom)} )
         ~> pc = "done" )

\* C20: once interned, image_format is the atom that names the MIME type of
\* the format, never None, whether or not the name was an atom before.  The
\* code interns it with only_if_exists: true.
C20_FormatAtomValid ==
    pc \in {"claim", "verify", "servicing"} =>
        /\ image_format # ATOM_NONE
        /\ image_format = MimeAtom

====
